---- MODULE Spec2Model ----
(***************************************************************************)
(* Model of the concurrent HTTP proxy of src/proxy.c: the accept loop of   *)
(* main(), the detached handler thread() and the request pipeline doit()   *)
(* with its error responder clienterror().                                 *)
(*                                                                         *)
(* Descriptors are numbers handed out lowest-free-first by a descriptor    *)
(* table, so that closing a number twice, or using it after it was closed, *)
(* acts on whatever connection owns the number at that moment.             *)
(*                                                                         *)
(* Text is modelled line by line: a client line is a token (request line,  *)
(* header, blank line, malformed line), the outbound request is the        *)
(* sequence of lines strcat() appended to it, and the error page is the    *)
(* real text snprintf() produces.  An origin response of n bytes is the    *)
(* byte sequence 1..n, a relayed chunk is the interval of it that was      *)
(* copied.                                                                 *)
(*                                                                         *)
(* The process starts at the entry of main() with SIGPIPE at its default   *)
(* disposition; a failed write to an open socket raises SIGPIPE.  A read   *)
(* from a peer that neither sends nor closes never returns.  Every rio_    *)
(* read and write of a handler is recorded, in order, in io.               *)
(***************************************************************************)
EXTENDS Integers, Sequences, FiniteSets, TLC

\* ------------------------------------------------------------------------
\* Bounds of the model
\* ------------------------------------------------------------------------
\* connections the environment makes in the concurrent specification
MaxConn == 2
\* header lines a client sends after its request line
MaxHdrs == 2
\* connections the environment makes in the specification with silent peers
MaxBlock == 3

\* ------------------------------------------------------------------------
\* Program constants
\* ------------------------------------------------------------------------
MAX_OBJECT_SIZE == 100 * 1024
MAXLINE == 8192
MAXBUF == 8192
\* 0, 1, 2 are the standard streams, 3 is listenfd
FirstFd == 4

default_version == "HTTP/1.0\r\n"
default_port == "80"
header_user_agent ==
    [t |-> "hdr", name |-> "User-Agent",
     value |-> "Mozilla/5.0 (X11; Linux x86_64; rv:3.10.0) Gecko/20230411 Firefox/63.0."]
header_conn == [t |-> "hdr", name |-> "Connection", value |-> "close"]
header_proxy == [t |-> "hdr", name |-> "Proxy-Connection", value |-> "close"]

\* dispositions of SIGPIPE: terminate the process, or ignore the signal
SIG_DFL == "default"
SIG_IGN == "ignore"
\* argc as the shell passes it: no argument, the port, the port and one more
ArgCounts == {1, 2, 3}
\* (mutation of SigpipeDisposition: SIGPIPE is left at its default)
SigpipeDefault == SIG_DFL
\* the disposition main() installs for SIGPIPE
SigpipeDisposition == SIG_IGN
\* the status main() exits with after the usage message
UsageStatus == 0
\* open_listenfd() returns the first descriptor after the standard streams
ListenFd == 3

\* a C string that was never set (NULL / field absent)
NoVal == ""
\* an int that was never assigned (client_data before the first accept)
Unassigned == -2

Conns == 1 .. (IF MaxBlock > MaxConn THEN MaxBlock ELSE MaxConn)
\* every connection holds at most a client and an origin descriptor
FDs == FirstFd .. (FirstFd + 2 * Cardinality(Conns) - 1)
Min(a, b) == IF a < b THEN a ELSE b

\* ------------------------------------------------------------------------
\* What clients and origins send
\* ------------------------------------------------------------------------
BadLine == [t |-> "bad"]
BlankLine == [t |-> "blank"]
ReqLine(method, host, port, path, version) ==
    [t |-> "req", method |-> method, host |-> host, port |-> port,
     path |-> path, version |-> version]
Hdr(name, value) == [t |-> "hdr", name |-> name, value |-> value]

FirstLines ==
    { BadLine, BlankLine,
      ReqLine("GET", "h1", NoVal, "/a", "HTTP/1.1"),
      ReqLine("GET", "h1", "8080", "/a", "HTTP/1.0"),
      ReqLine("GET", NoVal, NoVal, "/a", "HTTP/1.1"),
      ReqLine("POST", "h1", NoVal, "/a", "HTTP/1.1"),
      ReqLine("POST", NoVal, NoVal, "/a", "HTTP/1.0") }

HeaderLines ==
    { Hdr("X-Test", "1"), Hdr("Accept", "*/*"),
      Hdr("Host", "h2"), Hdr("User-Agent", "curl"),
      Hdr("Connection", "keep-alive"), Hdr("Proxy-Connection", "keep-alive"),
      BadLine, BlankLine }

RECURSIVE SeqsUpTo(_, _)
SeqsUpTo(S, n) ==
    IF n = 0 THEN { <<>> }
    ELSE LET shorter == SeqsUpTo(S, n - 1)
         IN  shorter \cup { Append(s, x) : s \in { q \in shorter : Len(q) = n - 1 }, x \in S }

\* the lines one client sends before it shuts its side down
OneScripts ==
    { <<>> } \cup { <<f>> \o hs : f \in FirstLines, hs \in SeqsUpTo(HeaderLines, MaxHdrs) }
ConcScripts ==
    { <<>>, <<BadLine>>,
      <<ReqLine("GET", "h1", NoVal, "/a", "HTTP/1.1"), BlankLine>> }
\* a text of n bytes
RECURSIVE Pad(_)
Pad(n) ==
    IF n <= 0 THEN ""
    ELSE IF n = 1 THEN "x"
    ELSE LET half == Pad(n \div 2)
         IN  half \o half \o (IF n % 2 = 1 THEN "x" ELSE "")

\* header lines of up to MAXLINE - 1 bytes, the most rio_readlineb puts
\* into buf: a short one, one of half that size, one of the full size
LongHeaderLines ==
    { Hdr("X-Test", "1"),
      Hdr("X-Half", Pad(MAXLINE \div 2)),
      Hdr("X-Long", Pad(MAXLINE - 1 - Len("X-Long: \r\n"))),
      BlankLine }
LongScripts ==
    { <<>> } \cup
    { <<ReqLine("GET", "h1", NoVal, "/a", "HTTP/1.1")>> \o hs :
        hs \in SeqsUpTo(LongHeaderLines, MaxHdrs) }
Scripts(md) ==
    IF md = "one" THEN OneScripts
    ELSE IF md = "long" THEN LongScripts ELSE ConcScripts

\* a client: its lines, and whether after them it closes its side (quiet
\* FALSE) or stays connected without sending (quiet TRUE)
BlockClients ==
    { [lines |-> <<>>, quiet |-> FALSE], [lines |-> <<>>, quiet |-> TRUE],
      [lines |-> <<ReqLine("GET", "h1", NoVal, "/a", "HTTP/1.1"), BadLine>>,
       quiet |-> FALSE] }
Clients(md) ==
    IF md = "block" THEN BlockClients ELSE [lines : Scripts(md), quiet : {FALSE}]

\* the outcomes of a write: it goes through, or the peer has closed
WriteResults(md) == IF md = "block" THEN {TRUE} ELSE BOOLEAN

\* an origin response: n bytes, then end of stream ("eof"), a read error
\* ("err"), or an origin that stays connected without sending ("hang")
OneSizes ==
    { 0, 1, MAX_OBJECT_SIZE - 1, MAX_OBJECT_SIZE, MAX_OBJECT_SIZE + 1,
      3 * MAX_OBJECT_SIZE + 7 }
Responses(md) ==
    IF md = "one" THEN [n : OneSizes, end : {"eof", "err"}]
    ELSE IF md = "block" THEN [n : {1}, end : {"eof", "hang"}]
    ELSE [n : {1}, end : {"eof"}]
NoResp == [n |-> 0, end |-> "eof"]

\* ------------------------------------------------------------------------
\* Request parser (http_parser.h): START, then REQUEST, then HEADER lines
\* ------------------------------------------------------------------------
parser_new ==
    [state |-> "START", method |-> NoVal, host |-> NoVal, port |-> NoVal,
     path |-> NoVal, version |-> NoVal, header |-> Hdr(NoVal, NoVal)]

\* the parser after consuming one line; its state is the parse_state returned
parser_parse_line(parser, line) ==
    IF parser.state = "START" /\ line.t = "req"
    THEN [parser EXCEPT !.state = "REQUEST", !.method = line.method,
                        !.host = line.host, !.port = line.port,
                        !.path = line.path, !.version = line.version]
    ELSE IF parser.state \in {"REQUEST", "HEADER"} /\ line.t = "hdr"
    THEN [parser EXCEPT !.state = "HEADER", !.header = line,
                        !.host = IF @ = NoVal /\ line.name = "Host"
                                 THEN line.value ELSE @]
    ELSE [parser EXCEPT !.state = "ERROR"]

\* parser_retrieve: 0 and the value, or a negative code when the field is unset
parser_retrieve(parser, field) ==
    IF parser[field] = NoVal THEN [err |-> -2, val |-> NoVal]
    ELSE [err |-> 0, val |-> parser[field]]

parser_retrieve_next_header(parser) == parser.header

\* ------------------------------------------------------------------------
\* Text built by doit() and clienterror()
\* ------------------------------------------------------------------------
\* sprintf(request, "%s %s %s", method, path, default_version)
RequestLine(method, path) ==
    [t |-> "req", method |-> method, path |-> path, version |-> default_version]

\* sprintf(host_header, "Host: %s:%s\r\n", host, port)
HostHeader(host, port) == Hdr("Host", host \o ":" \o port)

\* the request line and the four mandatory headers, in strcat order
MandatoryRequest(method, path, host, port) ==
    << RequestLine(method, path), HostHeader(host, port),
       header_user_agent, header_conn, header_proxy >>

\* (mutation of PassThrough: the Connection comparison is missing)
PassThroughConnection(header) ==
    ~ (header.name = "Host" \/ header.name = "User-Agent" \/
       header.name = "Proxy-Connection")
\* a client header is passed through unless the proxy sets that header itself
PassThrough(header) ==
    ~ (header.name = "Host" \/ header.name = "User-Agent" \/
       header.name = "Connection" \/ header.name = "Proxy-Connection")

\* (mutation of AppendHeader: the header is put in front of the earlier ones)
InsertHeader(request, header) ==
    IF PassThrough(header)
    THEN SubSeq(request, 1, 5) \o <<Hdr(header.name, header.value)>> \o
         SubSeq(request, 6, Len(request))
    ELSE request
\* sprintf(hdr, "%s: %s\r\n", header->name, header->value); strcat(request, hdr)
AppendHeader(request, header) ==
    IF PassThrough(header) THEN Append(request, Hdr(header.name, header.value))
    ELSE request

\* (mutation of Terminate: the blank line is left out)
TerminateNot(request) == request
\* strcat(request, "\r\n")
Terminate(request) == Append(request, BlankLine)

\* the bytes of one line of the outbound request
LineText(l) ==
    IF l.t = "req" THEN l.method \o " " \o l.path \o " " \o l.version
    ELSE IF l.t = "hdr" THEN l.name \o ": " \o l.value \o "\r\n"
    ELSE "\r\n"

\* strlen(request): the bytes sprintf and strcat have put into request
RECURSIVE RequestBytes(_)
RequestBytes(request) ==
    IF request = <<>> THEN 0
    ELSE Len(LineText(Head(request))) + RequestBytes(Tail(request))

\* snprintf(body, MAXBUF, ...): the text of the error page
ErrorBody(errnum, shortmsg, longmsg) ==
    "<!DOCTYPE html>\r\n" \o
    "<html>\r\n" \o
    "<head><title>Tiny Error</title></head>\r\n" \o
    "<body bgcolor=\"ffffff\">\r\n" \o
    "<h1>" \o errnum \o ": " \o shortmsg \o "</h1>\r\n" \o
    "<p>" \o longmsg \o "</p>\r\n" \o
    "<hr /><em>The Tiny Web server</em>\r\n" \o
    "</body></html>\r\n"

\* snprintf(buf, MAXLINE, ...): the status line and the header block
ErrorHeaders(errnum, shortmsg, bodylen) ==
    "HTTP/1.0 " \o errnum \o " " \o shortmsg \o "\r\n" \o
    "Content-Type: text/html\r\n" \o
    "Content-Length: " \o ToString(bodylen) \o "\r\n\r\n"

\* what rio_writen(fd, buf, buflen) puts on the wire: the block and the fields in it
HeaderItem(errnum, shortmsg, bodylen) ==
    [t |-> "ehdr", code |-> errnum, reason |-> shortmsg, clen |-> bodylen,
     text |-> ErrorHeaders(errnum, shortmsg, bodylen)]

\* what rio_writen(fd, body, bodylen) puts on the wire
BodyItem(body, bodylen) == [t |-> "ebody", text |-> body, n |-> bodylen]

\* (mutation of BodyLen: the terminating NUL is counted)
BodyLenWithNul(body) == Len(body) + 1
\* bodylen: what snprintf returns for the body
BodyLen(body) == Len(body)

\* (mutation of Overflow: a text as long as the buffer is taken to fit)
OverflowOffByOne(len, size) == len > size
\* if (bodylen >= MAXBUF), if (buflen >= MAXLINE): snprintf had to truncate
Overflow(len, size) == len >= size

NoErr == [errnum |-> NoVal, shortmsg |-> NoVal, longmsg |-> NoVal, ret |-> "none"]
ErrFrame(errnum, shortmsg, longmsg, ret) ==
    [errnum |-> errnum, shortmsg |-> shortmsg, longmsg |-> longmsg, ret |-> ret]

\* arguments for clienterror(): the codes and reasons of the proxy and of
\* the origin server, a reason too long for the header block, and messages
\* that bring the body to within PadSlack bytes of MAXBUF
PadSlack == 2
ErrorCodes == {"400", "501", "403", "404"}
ErrorReasons == {"Bad Request", "Not Implemented", Pad(MAXLINE)}
ErrorArgs ==
    { ErrFrame(errnum, shortmsg, longmsg, "done") :
        errnum \in ErrorCodes, shortmsg \in ErrorReasons,
        longmsg \in {"Proxy received a malformed request"} \cup
                    { Pad(MAXBUF - Len(ErrorBody("400", "Bad Request", "")) + d) :
                        d \in (0 - PadSlack) .. PadSlack } }

\* ------------------------------------------------------------------------
\* State
\* ------------------------------------------------------------------------
VARIABLES
    mode,        \* which environment the run has: "conc", "one", "block", "page"
    proc,        \* the process: argc, SIGPIPE disposition, listenfd, exit status
    nconn,       \* connections accepted so far
    mpc,         \* position of main(): "signal", "args", "listen", "accept", "spawn", "exit"
    connfd,      \* client->connfd of main()
    accepted,    \* per connection: the number accept() returned for it
    cell,        \* the heap cells connfdp points to, one per connection
    fdt,         \* descriptor table of the process: number -> what it refers to
    script,      \* per client socket: all the lines the client sends
    silent,      \* per client socket: after its lines the client neither sends nor closes
    clientIn,    \* per client socket: the lines not yet read by the proxy
    clientOut,   \* per client socket: what has been written to it
    originResp,  \* per origin socket: the response the origin sends
    originPos,   \* per origin socket: response bytes already read
    originIn,    \* per origin socket: what has been written to it
    th,          \* per handler thread: position and locals of thread()/doit()
    closes,      \* per handler: close(client_fd) calls made so far
    scloses,     \* per handler: close(serverfd) calls made on an opened origin
    wfail,       \* per handler: some write of it has failed
    dialed,      \* per handler: the (host, port) pairs given to open_clientfd
    foreign,     \* descriptor operations that hit another connection's socket
    io           \* per handler: its rio_ reads and writes so far, in order

vars == << mode, proc, nconn, mpc, connfd, accepted, cell, fdt, script, silent, clientIn,
           clientOut, originResp, originPos, originIn, th, closes, scloses,
           wfail, dialed, foreign, io >>

Free == [k |-> "free", c |-> 0]
ClientSock(c) == [k |-> "client", c |-> c]
OriginSock(c) == [k |-> "origin", c |-> c]

\* connections the environment makes
Limit ==
    IF mode \in {"one", "long"} THEN 1
    ELSE IF mode = "block" THEN MaxBlock ELSE MaxConn

ThreadInit ==
    [pc |-> "idle", vargp |-> 0, client_fd |-> -1, serverfd |-> -1,
     buf |-> BlankLine, parser |-> parser_new,
     method |-> NoVal, host |-> NoVal, path |-> NoVal, port |-> NoVal,
     request |-> <<>>, server_buf |-> [src |-> Free, lo |-> 0, len |-> 0],
     m |-> 0, err |-> NoErr, body |-> NoVal, bodylen |-> 0]

\* the process as exec() hands it to main(): SIGPIPE at its default
\* disposition, nothing opened, argc as the command line gave it
ProcInit(argc) ==
    [argc |-> argc, sigpipe |-> SIG_DFL, listenfd |-> Unassigned,
     status |-> "running", code |-> Unassigned, usage |-> FALSE]

InitCommon ==
    /\ proc \in { ProcInit(argc) : argc \in ArgCounts }
    /\ nconn = 0
    /\ mpc = "signal"
    /\ connfd = Unassigned
    /\ accepted = [c \in Conns |-> Unassigned]
    /\ cell = [c \in Conns |-> [st |-> "none", val |-> -1]]
    /\ fdt = [f \in FDs |-> Free]
    /\ script = [c \in Conns |-> <<>>]
    /\ silent = [c \in Conns |-> FALSE]
    /\ clientIn = [c \in Conns |-> <<>>]
    /\ clientOut = [c \in Conns |-> <<>>]
    /\ originResp = [c \in Conns |-> NoResp]
    /\ originPos = [c \in Conns |-> 0]
    /\ originIn = [c \in Conns |-> <<>>]
    /\ th = [c \in Conns |-> ThreadInit]
    /\ closes = [c \in Conns |-> 0]
    /\ scloses = [c \in Conns |-> 0]
    /\ wfail = [c \in Conns |-> FALSE]
    /\ dialed = [c \in Conns |-> <<>>]
    /\ foreign = {}
    /\ io = [c \in Conns |-> <<>>]

Init == mode = "conc" /\ InitCommon
InitOne == mode = "one" /\ InitCommon
InitBlock == mode = "block" /\ InitCommon
InitLong == mode = "long" /\ InitCommon

\* clienterror() on its own: called on an open client descriptor with
\* arguments drawn from ErrorArgs
InitPage ==
    /\ mode = "page"
    /\ proc = [ProcInit(2) EXCEPT !.sigpipe = SigpipeDisposition, !.listenfd = ListenFd]
    /\ nconn = 1
    /\ mpc = "accept"
    /\ connfd = FirstFd
    /\ accepted = [c \in Conns |-> IF c = 1 THEN FirstFd ELSE Unassigned]
    /\ cell = [c \in Conns |-> IF c = 1 THEN [st |-> "freed", val |-> FirstFd]
                               ELSE [st |-> "none", val |-> -1]]
    /\ fdt = [f \in FDs |-> IF f = FirstFd THEN ClientSock(1) ELSE Free]
    /\ script = [c \in Conns |-> <<>>]
    /\ silent = [c \in Conns |-> FALSE]
    /\ clientIn = [c \in Conns |-> <<>>]
    /\ clientOut = [c \in Conns |-> <<>>]
    /\ originResp = [c \in Conns |-> NoResp]
    /\ originPos = [c \in Conns |-> 0]
    /\ originIn = [c \in Conns |-> <<>>]
    /\ \E e \in ErrorArgs :
         th = [c \in Conns |->
                 IF c = 1
                 THEN [ThreadInit EXCEPT !.vargp = 1, !.client_fd = FirstFd,
                                         !.err = e, !.pc = "clienterror"]
                 ELSE ThreadInit]
    /\ closes = [c \in Conns |-> 0]
    /\ scloses = [c \in Conns |-> 0]
    /\ wfail = [c \in Conns |-> FALSE]
    /\ dialed = [c \in Conns |-> <<>>]
    /\ foreign = {}
    /\ io = [c \in Conns |-> <<>>]

\* ------------------------------------------------------------------------
\* Descriptor operations
\* ------------------------------------------------------------------------
IsOpen(fd) == fd \in FDs /\ fdt[fd] # Free
Owner(fd) == IF fd \in FDs THEN fdt[fd] ELSE Free

\* accept() and socket() return the lowest descriptor number not in use
LowestFree(t) ==
    CHOOSE f \in FDs : t[f] = Free /\ \A g \in FDs : g < f => t[g] # Free

\* the operation op of handler c on fd hits a socket of another connection
Touch(c, op, fd) ==
    IF IsOpen(fd) /\ fdt[fd].c # c
    THEN foreign \cup { [by |-> c, op |-> op, on |-> fdt[fd]] }
    ELSE foreign

\* close(fd): releases the number whoever it refers to, EBADF otherwise
CloseFd(c, fd) ==
    /\ fdt' = IF IsOpen(fd) THEN [fdt EXCEPT ![fd] = Free] ELSE fdt
    /\ foreign' = Touch(c, "close", fd)

\* the process has neither exited nor been killed
Running == proc.status = "running"

\* a read of fd would wait for ever: the socket behind it has nothing left
\* to deliver and its peer neither sends nor closes
Blocks(fd) ==
    LET o == Owner(fd)
    IN  \/ o.k = "client" /\ clientIn[o.c] = <<>> /\ silent[o.c]
        \/ o.k = "origin" /\ originPos[o.c] >= originResp[o.c].n
                          /\ originResp[o.c].end = "hang"

\* one entry of the record of a handler's reads and writes
IoEvent(op, fd, ok) == [op |-> op, on |-> Owner(fd), ok |-> ok]

\* write() to an open socket whose peer has closed raises SIGPIPE; at the
\* default disposition that terminates the process
Signalled(p, fd, ok) ==
    IF ~ok /\ IsOpen(fd) /\ p.sigpipe = SIG_DFL
    THEN [p EXCEPT !.status = "killed"] ELSE p

\* sprintf and strcat into char request[MAXBUF] check no length: a text that
\* with its NUL is longer than the array is written past its end.  The
\* process may be terminated for it (stack protector, fault) or run on.
WrittenPastEnd(request) == RequestBytes(request) + 1 > MAXBUF
StackSmash(request) ==
    proc' \in IF WrittenPastEnd(request)
              THEN { proc, [proc EXCEPT !.status = "crashed"] }
              ELSE { proc }

\* rio_writen(fd, ..): ok says whether the write went through; the bytes
\* arrive at the socket the number refers to at that moment
WriteFd(c, fd, item, ok) ==
    /\ ok => IsOpen(fd)
    /\ io' = [io EXCEPT ![c] = Append(@, IoEvent("write", fd, ok))]
    /\ proc' = Signalled(proc, fd, ok)
    /\ clientOut' = IF ok /\ Owner(fd).k = "client"
                    THEN [clientOut EXCEPT ![Owner(fd).c] = Append(@, item)]
                    ELSE clientOut
    /\ originIn' = IF ok /\ Owner(fd).k = "origin"
                   THEN [originIn EXCEPT ![Owner(fd).c] = Append(@, item)]
                   ELSE originIn
    /\ wfail' = [wfail EXCEPT ![c] = @ \/ ~ok]
    /\ foreign' = Touch(c, "write", fd)

\* rio_readlineb(&rp, buf, ..): the next line of the socket behind fd;
\* n <= 0 at end of stream, on a read error and on a bad descriptor
ReadLine(fd) ==
    LET o == Owner(fd)
    IN  IF o.k = "client" /\ clientIn[o.c] # <<>>
        THEN [n |-> 1, line |-> Head(clientIn[o.c])]
        ELSE IF o.k = "origin" /\ originPos[o.c] < originResp[o.c].n
        THEN [n |-> 1, line |-> BadLine]
        ELSE [n |-> 0, line |-> BlankLine]

\* the socket streams after ReadLine(fd)
ReadLineEffect(c, fd) ==
    LET o == Owner(fd)
    IN  /\ clientIn' = IF o.k = "client" /\ clientIn[o.c] # <<>>
                       THEN [clientIn EXCEPT ![o.c] = Tail(@)] ELSE clientIn
        /\ originPos' = IF o.k = "origin"
                        THEN [originPos EXCEPT ![o.c] = originResp[o.c].n]
                        ELSE originPos
        /\ foreign' = Touch(c, "read", fd)
        /\ io' = [io EXCEPT ![c] = Append(@, IoEvent("read", fd, ReadLine(fd).n > 0))]

\* rio_readnb(&srp, server_buf, n): up to n bytes, fewer only at end of stream;
\* 0 at end of stream, -1 on a read error and on a bad descriptor
ReadNb(fd, n) ==
    LET o == Owner(fd)
        left == originResp[o.c].n - originPos[o.c]
    IN  IF o.k = "origin" /\ left > 0
        THEN [m |-> Min(left, n),
              data |-> [src |-> o, lo |-> originPos[o.c] + 1, len |-> Min(left, n)]]
        ELSE IF o.k = "origin"
        THEN [m |-> IF originResp[o.c].end = "eof" THEN 0 ELSE -1,
              data |-> [src |-> Free, lo |-> 0, len |-> 0]]
        ELSE IF o.k = "client" /\ clientIn[o.c] # <<>>
        THEN [m |-> Len(clientIn[o.c]),
              data |-> [src |-> o, lo |-> 1, len |-> Len(clientIn[o.c])]]
        ELSE [m |-> IF o.k = "client" THEN 0 ELSE -1,
              data |-> [src |-> Free, lo |-> 0, len |-> 0]]

\* the socket streams after ReadNb(fd, n)
ReadNbEffect(c, fd, n) ==
    LET o == Owner(fd)
    IN  /\ originPos' = IF o.k = "origin"
                        THEN [originPos EXCEPT ![o.c] =
                                 IF ReadNb(fd, n).m > 0 THEN @ + ReadNb(fd, n).m ELSE @]
                        ELSE originPos
        /\ clientIn' = IF o.k = "client"
                       THEN [clientIn EXCEPT ![o.c] = <<>>] ELSE clientIn
        /\ foreign' = Touch(c, "read", fd)
        /\ io' = [io EXCEPT ![c] = Append(@, IoEvent("read", fd, ReadNb(fd, n).m > 0))]

\* (mutation of Chunk: the whole buffer is sent, not the m bytes read)
WholeBuffer(server_buf, m) ==
    [t |-> "data", src |-> server_buf.src, lo |-> server_buf.lo,
     len |-> MAX_OBJECT_SIZE,
     stale |-> IF MAX_OBJECT_SIZE > server_buf.len
               THEN MAX_OBJECT_SIZE - server_buf.len ELSE 0]
\* the m bytes rio_writen(client_fd, server_buf, m) sends from the buffer;
\* bytes beyond what the last read put there are stale
Chunk(server_buf, m) ==
    [t |-> "data", src |-> server_buf.src, lo |-> server_buf.lo, len |-> m,
     stale |-> IF m > server_buf.len THEN m - server_buf.len ELSE 0]

\* ------------------------------------------------------------------------
\* doit(): the decisions on the request line
\* ------------------------------------------------------------------------
\* (mutation of RejectRequestLine: the error page is forgotten)
RejectRequestLineSilently(t) == [t EXCEPT !.pc = "close_client"]
\* parse_state != REQUEST: the 400 page, then close(client_fd) and return
RejectRequestLine(t) ==
    [t EXCEPT !.err = ErrFrame("400", "Bad Request",
                               "Proxy received a malformed request", "close_client"),
              !.pc = "clienterror"]

\* (mutation of MethodSupported: POST is let through)
MethodSupportedOrPost(method) == method \in {"GET", "POST"}
\* strcmp(method, "GET") == 0
MethodSupported(method) == method = "GET"

\* the 501 page, then close(client_fd) and return
RejectMethod(t) ==
    [t EXCEPT !.err = ErrFrame("501", "Not Implemented",
                               "Proxy does not implement this method", "close_client"),
              !.pc = "clienterror"]

\* (mutation of RejectHeader: the handler gives up the connection)
RejectHeaderAndAbort(t) ==
    [t EXCEPT !.err = ErrFrame("400", "Bad Request",
                               "Proxy could not parse request headers", "close_client"),
              !.pc = "clienterror"]
\* parse_state != HEADER: the 400 page, then break out of the header loop
RejectHeader(t) ==
    [t EXCEPT !.err = ErrFrame("400", "Bad Request",
                               "Proxy could not parse request headers", "terminate"),
              !.pc = "clienterror"]

\* ------------------------------------------------------------------------
\* doit(): the decisions on the origin connection
\* ------------------------------------------------------------------------
\* (mutation of Connected: the relay starts without the request being sent)
ConnectedSkipSend(t, fd) == [t EXCEPT !.serverfd = fd, !.pc = "relay_read"]
\* serverfd >= 0: parser_free, then the request is written to serverfd
Connected(t, fd) == [t EXCEPT !.serverfd = fd, !.pc = "send_request"]

\* (mutation of ConnectFailed: the handler returns without the error page)
ConnectFailedSilently(t) == [t EXCEPT !.serverfd = -1, !.pc = "close_server"]
\* serverfd < 0: the 400 page, then close(serverfd) and return
ConnectFailed(t) ==
    [t EXCEPT !.serverfd = -1,
              !.err = ErrFrame("400", "Bad Request",
                               "Proxy could not parse request headers", "close_server"),
              !.pc = "clienterror"]

\* (mutation of SendFailed: doit() returns with serverfd still open)
SendFailedLeaks(t) == [t EXCEPT !.pc = "thread_close"]
\* rio_writen(serverfd, ..) <= 0: a message, close(serverfd), return -1
SendFailed(t) == [t EXCEPT !.pc = "close_server"]

\* ------------------------------------------------------------------------
\* main(): the accept loop
\* ------------------------------------------------------------------------
\* signal(SIGPIPE, SIG_IGN), the first statement of main()
main_signal ==
    /\ Running
    /\ mpc = "signal"
    /\ proc' = [proc EXCEPT !.sigpipe = SigpipeDisposition]
    /\ mpc' = "args"
    /\ UNCHANGED << mode, accepted, silent, io, script, nconn, connfd, cell, fdt, clientIn,
                    clientOut, originResp, originPos, originIn, th, closes,
                    scloses, wfail, dialed, foreign >>

\* if (argc != 2): the usage message on stderr and exit(UsageStatus)
main_args ==
    /\ Running
    /\ mpc = "args"
    /\ IF proc.argc # 2
       THEN /\ proc' = [proc EXCEPT !.status = "exited", !.code = UsageStatus,
                                    !.usage = TRUE]
            /\ mpc' = "exit"
       ELSE /\ mpc' = "listen"
            /\ UNCHANGED proc
    /\ UNCHANGED << mode, accepted, silent, io, script, nconn, connfd, cell, fdt, clientIn,
                    clientOut, originResp, originPos, originIn, th, closes,
                    scloses, wfail, dialed, foreign >>

\* listenfd = open_listenfd(argv[1]); on failure a message, close(listenfd)
\* of the negative value, and exit(1)
main_listen ==
    /\ Running
    /\ mpc = "listen"
    /\ \/ /\ proc' = [proc EXCEPT !.listenfd = ListenFd]
          /\ mpc' = "accept"
       \/ /\ proc' = [proc EXCEPT !.listenfd = -1, !.status = "exited", !.code = 1]
          /\ mpc' = "exit"
    /\ UNCHANGED << mode, accepted, silent, io, script, nconn, connfd, cell, fdt, clientIn,
                    clientOut, originResp, originPos, originIn, th, closes,
                    scloses, wfail, dialed, foreign >>

\* client->connfd = accept(..) succeeds: a client with its lines connects
main_accept ==
    /\ Running
    /\ mpc = "accept"
    /\ nconn < Limit
    /\ mode = "one" => \A c \in Conns : th[c].pc \in {"idle", "done"}
    /\ \E client \in Clients(mode) :
         LET c == nconn + 1
             fd == LowestFree(fdt)
         IN  /\ fdt' = [fdt EXCEPT ![fd] = ClientSock(c)]
             /\ script' = [script EXCEPT ![c] = client.lines]
             /\ silent' = [silent EXCEPT ![c] = client.quiet]
             /\ clientIn' = [clientIn EXCEPT ![c] = client.lines]
             /\ connfd' = fd
             /\ accepted' = [accepted EXCEPT ![c] = fd]
             /\ nconn' = c
             /\ mpc' = "spawn"
    /\ UNCHANGED << mode, proc, io, cell, clientOut, originResp, originPos, originIn,
                    th, closes, scloses, wfail, dialed, foreign >>

\* accept() fails: perror and continue
main_accept_fail ==
    /\ Running
    /\ mpc = "accept"
    /\ nconn < Limit
    /\ connfd' = -1
    /\ UNCHANGED << mode, accepted, silent, proc, io, script, nconn, mpc, cell, fdt, clientIn, clientOut,
                    originResp, originPos, originIn, th, closes, scloses,
                    wfail, dialed, foreign >>

\* connfdp = Malloc; *connfdp = client->connfd; pthread_create(.., thread, connfdp)
main_spawn ==
    /\ Running
    /\ mpc = "spawn"
    /\ cell' = [cell EXCEPT ![nconn] = [st |-> "live", val |-> connfd]]
    /\ th' = [th EXCEPT ![nconn].pc = "start", ![nconn].vargp = nconn]
    /\ mpc' = "accept"
    /\ UNCHANGED << mode, accepted, silent, proc, io, script, nconn, connfd, fdt, clientIn, clientOut, originResp,
                    originPos, originIn, closes, scloses, wfail, dialed, foreign >>

\* ------------------------------------------------------------------------
\* thread(): the detached handler
\* ------------------------------------------------------------------------
\* client_fd = *vargp; pthread_detach; Free(vargp); then doit(client_fd)
thread_start(c) ==
    /\ Running
    /\ th[c].pc = "start"
    /\ cell[th[c].vargp].st = "live"
    /\ th' = [th EXCEPT ![c].client_fd = cell[th[c].vargp].val,
                        ![c].pc = "read_request"]
    /\ cell' = [cell EXCEPT ![th[c].vargp].st = "freed"]
    /\ UNCHANGED << mode, accepted, silent, proc, io, script, nconn, mpc, connfd, fdt, clientIn, clientOut,
                    originResp, originPos, originIn, closes, scloses, wfail,
                    dialed, foreign >>

\* close(client_fd) after doit() has returned; the thread ends
thread_close(c) ==
    /\ Running
    /\ th[c].pc = "thread_close"
    /\ CloseFd(c, th[c].client_fd)
    /\ closes' = [closes EXCEPT ![c] = @ + 1]
    /\ th' = [th EXCEPT ![c].pc = "done"]
    /\ UNCHANGED << mode, accepted, silent, proc, io, script, nconn, mpc, connfd, cell, clientIn, clientOut,
                    originResp, originPos, originIn, scloses, wfail, dialed >>

\* ------------------------------------------------------------------------
\* doit(): request line
\* ------------------------------------------------------------------------
\* rio_readlineb of the first line; parser_new and parser_parse_line on it
doit_request_line(c) ==
    /\ Running
    /\ th[c].pc = "read_request"
    /\ ~ Blocks(th[c].client_fd)
    /\ LET r == ReadLine(th[c].client_fd)
           parser == parser_parse_line(parser_new, r.line)
       IN  th' = IF r.n <= 0
                 THEN [th EXCEPT ![c].pc = "close_client"]
                 ELSE IF parser.state # "REQUEST"
                 THEN [th EXCEPT ![c] = RejectRequestLine([@ EXCEPT !.buf = r.line])]
                 ELSE [th EXCEPT ![c].buf = r.line, ![c].parser = parser,
                                 ![c].pc = "fields"]
    /\ ReadLineEffect(c, th[c].client_fd)
    /\ UNCHANGED << mode, accepted, silent, proc, script, nconn, mpc, connfd, cell, fdt, clientOut, originResp,
                    originIn, closes, scloses, wfail, dialed >>

\* parser_retrieve of METHOD, HOST, PATH, PORT, the GET check, and the
\* request line and mandatory headers written into request
doit_fields(c) ==
    /\ Running
    /\ th[c].pc = "fields"
    /\ LET method == parser_retrieve(th[c].parser, "method")
           host == parser_retrieve(th[c].parser, "host")
           path == parser_retrieve(th[c].parser, "path")
           port == parser_retrieve(th[c].parser, "port")
           portv == IF port.err < 0 THEN default_port ELSE port.val
       IN  th' = IF method.err < 0
                 THEN [th EXCEPT ![c].pc = "close_client"]
                 ELSE IF ~ MethodSupported(method.val)
                 THEN [th EXCEPT ![c] = RejectMethod([@ EXCEPT !.method = method.val])]
                 ELSE IF host.err < 0
                 THEN [th EXCEPT ![c].method = method.val,
                                 ![c].pc = "close_client"]
                 ELSE IF path.err < 0
                 THEN [th EXCEPT ![c].method = method.val, ![c].host = host.val,
                                 ![c].pc = "close_client"]
                 ELSE [th EXCEPT ![c].method = method.val, ![c].host = host.val,
                                 ![c].path = path.val, ![c].port = portv,
                                 ![c].request = MandatoryRequest(method.val,
                                                  path.val, host.val, portv),
                                 ![c].pc = "headers"]
    /\ StackSmash(th'[c].request)
    /\ UNCHANGED << mode, accepted, silent, io, script, nconn, mpc, connfd, cell, fdt, clientIn, clientOut,
                    originResp, originPos, originIn, closes, scloses, wfail,
                    dialed, foreign >>

\* close(client_fd); return -1: the early error exits of doit()
doit_close_client(c) ==
    /\ Running
    /\ th[c].pc = "close_client"
    /\ CloseFd(c, th[c].client_fd)
    /\ closes' = [closes EXCEPT ![c] = @ + 1]
    /\ th' = [th EXCEPT ![c].pc = "thread_close"]
    /\ UNCHANGED << mode, accepted, silent, proc, io, script, nconn, mpc, connfd, cell, clientIn, clientOut,
                    originResp, originPos, originIn, scloses, wfail, dialed >>

\* ------------------------------------------------------------------------
\* doit(): the other headers
\* ------------------------------------------------------------------------
\* one turn of the header loop: read a line, stop at end of stream or at the
\* blank line, report a line that is no header, pass the header through
doit_header(c) ==
    /\ Running
    /\ th[c].pc = "headers"
    /\ ~ Blocks(th[c].client_fd)
    /\ LET r == ReadLine(th[c].client_fd)
           parser == parser_parse_line(th[c].parser, r.line)
       IN  th' = IF r.n <= 0
                 THEN [th EXCEPT ![c].pc = "terminate"]
                 ELSE IF r.line = BlankLine
                 THEN [th EXCEPT ![c].buf = r.line, ![c].pc = "terminate"]
                 ELSE IF parser.state # "HEADER"
                 THEN [th EXCEPT ![c] = RejectHeader([@ EXCEPT !.buf = r.line,
                                                               !.parser = parser])]
                 ELSE [th EXCEPT ![c].buf = r.line, ![c].parser = parser,
                                 ![c].request = AppendHeader(@,
                                                  parser_retrieve_next_header(parser))]
    /\ ReadLineEffect(c, th[c].client_fd)
    /\ StackSmash(th'[c].request)
    /\ UNCHANGED << mode, accepted, silent, script, nconn, mpc, connfd, cell, fdt, clientOut, originResp,
                    originIn, closes, scloses, wfail, dialed >>

\* strcat(request, "\r\n") once the header loop has ended
doit_terminate(c) ==
    /\ Running
    /\ th[c].pc = "terminate"
    /\ th' = [th EXCEPT ![c].request = Terminate(@), ![c].pc = "connect"]
    /\ StackSmash(th'[c].request)
    /\ UNCHANGED << mode, accepted, silent, io, script, nconn, mpc, connfd, cell, fdt, clientIn, clientOut,
                    originResp, originPos, originIn, closes, scloses, wfail,
                    dialed, foreign >>

\* ------------------------------------------------------------------------
\* doit(): dial, send, relay
\* ------------------------------------------------------------------------
\* serverfd = open_clientfd(host, port): a new descriptor for the origin, or
\* a negative value and the 400 page
doit_connect(c) ==
    /\ Running
    /\ th[c].pc = "connect"
    /\ dialed' = [dialed EXCEPT ![c] = Append(@, [host |-> th[c].host, port |-> th[c].port])]
    /\ \/ \E resp \in Responses(mode) :
            LET fd == LowestFree(fdt)
            IN  /\ fdt' = [fdt EXCEPT ![fd] = OriginSock(c)]
                /\ originResp' = [originResp EXCEPT ![c] = resp]
                /\ th' = [th EXCEPT ![c] = Connected(@, fd)]
       \/ /\ th' = [th EXCEPT ![c] = ConnectFailed(@)]
          /\ UNCHANGED << fdt, originResp >>
    /\ UNCHANGED << mode, accepted, silent, proc, io, script, nconn, mpc, connfd, cell, clientIn, clientOut,
                    originPos, originIn, closes, scloses, wfail, foreign >>

\* rio_writen(serverfd, request, strlen(request))
doit_send(c) ==
    /\ Running
    /\ th[c].pc = "send_request"
    /\ \E ok \in WriteResults(mode) :
         /\ WriteFd(c, th[c].serverfd, [t |-> "request", lines |-> th[c].request], ok)
         /\ th' = [th EXCEPT ![c] = IF ok THEN [@ EXCEPT !.pc = "relay_read"]
                                   ELSE SendFailed(@)]
    /\ UNCHANGED << mode, accepted, silent, script, nconn, mpc, connfd, cell, fdt, clientIn, originResp,
                    originPos, closes, scloses, dialed >>

\* m = rio_readnb(&srp, server_buf, MAX_OBJECT_SIZE) and the loop test m > 0
doit_relay_read(c) ==
    /\ Running
    /\ th[c].pc = "relay_read"
    /\ ~ Blocks(th[c].serverfd)
    /\ LET r == ReadNb(th[c].serverfd, MAX_OBJECT_SIZE)
       IN  th' = IF r.m > 0
                 THEN [th EXCEPT ![c].m = r.m, ![c].server_buf = r.data,
                                 ![c].pc = "relay_write"]
                 ELSE [th EXCEPT ![c].m = r.m, ![c].pc = "close_server"]
    /\ ReadNbEffect(c, th[c].serverfd, MAX_OBJECT_SIZE)
    /\ UNCHANGED << mode, accepted, silent, proc, script, nconn, mpc, connfd, cell, fdt, clientOut, originResp,
                    originIn, closes, scloses, wfail, dialed >>

\* rio_writen(client_fd, server_buf, m), its result unused, then memset
doit_relay_write(c) ==
    /\ Running
    /\ th[c].pc = "relay_write"
    /\ \E ok \in WriteResults(mode) :
         WriteFd(c, th[c].client_fd, Chunk(th[c].server_buf, th[c].m), ok)
    /\ th' = [th EXCEPT ![c].server_buf = [src |-> Free, lo |-> 0, len |-> 0],
                        ![c].pc = "relay_read"]
    /\ UNCHANGED << mode, accepted, silent, script, nconn, mpc, connfd, cell, fdt, clientIn, originResp,
                    originPos, closes, scloses, dialed >>

\* close(serverfd) and return: after a failed dial (serverfd < 0), a failed
\* send, and the end of the relay
doit_close_server(c) ==
    /\ Running
    /\ th[c].pc = "close_server"
    /\ CloseFd(c, th[c].serverfd)
    /\ scloses' = [scloses EXCEPT ![c] = IF th[c].serverfd >= 0 THEN @ + 1 ELSE @]
    /\ th' = [th EXCEPT ![c].pc = "thread_close"]
    /\ UNCHANGED << mode, accepted, silent, proc, io, script, nconn, mpc, connfd, cell, clientIn, clientOut,
                    originResp, originPos, originIn, closes, wfail, dialed >>

\* ------------------------------------------------------------------------
\* clienterror()
\* ------------------------------------------------------------------------
\* build body and header block, give up silently if either does not fit,
\* write the headers
clienterror_headers(c) ==
    /\ Running
    /\ th[c].pc = "clienterror"
    /\ LET e == th[c].err
           body == ErrorBody(e.errnum, e.shortmsg, e.longmsg)
           bodylen == BodyLen(body)
           buflen == Len(ErrorHeaders(e.errnum, e.shortmsg, bodylen))
       IN  IF Overflow(bodylen, MAXBUF) \/ Overflow(buflen, MAXLINE)
           THEN /\ th' = [th EXCEPT ![c].pc = e.ret]
                /\ UNCHANGED << clientOut, originIn, wfail, foreign, proc, io >>
           ELSE \E ok \in WriteResults(mode) :
                  /\ WriteFd(c, th[c].client_fd,
                             HeaderItem(e.errnum, e.shortmsg, bodylen), ok)
                  /\ th' = [th EXCEPT ![c].body = body, ![c].bodylen = bodylen,
                                      ![c].pc = IF ok THEN "clienterror_body" ELSE e.ret]
    /\ UNCHANGED << mode, accepted, silent, script, nconn, mpc, connfd, cell, fdt, clientIn, originResp,
                    originPos, closes, scloses, dialed >>

\* write the body and return to the caller
clienterror_body(c) ==
    /\ Running
    /\ th[c].pc = "clienterror_body"
    /\ \E ok \in WriteResults(mode) :
         WriteFd(c, th[c].client_fd, BodyItem(th[c].body, th[c].bodylen), ok)
    /\ th' = [th EXCEPT ![c].pc = th[c].err.ret]
    /\ UNCHANGED << mode, accepted, silent, script, nconn, mpc, connfd, cell, fdt, clientIn, originResp,
                    originPos, closes, scloses, dialed >>

\* ------------------------------------------------------------------------
\* Specifications
\* ------------------------------------------------------------------------
Next ==
    \/ main_signal
    \/ main_args
    \/ main_listen
    \/ main_accept
    \/ main_accept_fail
    \/ main_spawn
    \/ \E c \in Conns : thread_start(c)
    \/ \E c \in Conns : doit_request_line(c)
    \/ \E c \in Conns : doit_fields(c)
    \/ \E c \in Conns : doit_close_client(c)
    \/ \E c \in Conns : doit_header(c)
    \/ \E c \in Conns : doit_terminate(c)
    \/ \E c \in Conns : doit_connect(c)
    \/ \E c \in Conns : doit_send(c)
    \/ \E c \in Conns : doit_relay_read(c)
    \/ \E c \in Conns : doit_relay_write(c)
    \/ \E c \in Conns : doit_close_server(c)
    \/ \E c \in Conns : clienterror_headers(c)
    \/ \E c \in Conns : clienterror_body(c)
    \/ \E c \in Conns : thread_close(c)

\* clients connect at any time, handlers run concurrently
Spec == Init /\ [][Next]_vars
\* a single client connects: one handler on its own, with the full range of
\* requests and responses.  What one handler does with its request is stated
\* under SpecOne; under Spec a descriptor number can be closed under a handler
\* by another handler's second close (C1, C2), which changes where its reads
\* and writes go.
SpecOne == InitOne /\ [][Next]_vars
\* clients connect at any time, and a client or an origin may stay connected
\* without ever sending or closing
SpecBlock == InitBlock /\ [][Next]_vars
\* a single client whose header lines are as long as a line may be
SpecLong == InitLong /\ [][Next]_vars

\* clienterror() applied to drawn arguments
NextPage ==
    \/ \E c \in Conns : clienterror_headers(c)
    \/ \E c \in Conns : clienterror_body(c)
SpecPage == InitPage /\ [][NextPage]_vars

\* ------------------------------------------------------------------------
\* Vocabulary of the properties
\* ------------------------------------------------------------------------
Done(c) == th[c].pc = "done"

\* the first line of client c was read and accepted as a request line
RequestAccepted(c) ==
    script[c] # <<>> /\ parser_parse_line(parser_new, script[c][1]).state = "REQUEST"

\* the descriptor table has no number left that refers to client socket c
ClientClosed(c) == \A f \in FDs : fdt[f] # ClientSock(c)

\* ------------------------------------------------------------------------
\* C1: when a handler has ended, whatever exit path doit() took, it has
\* called close() on its client descriptor exactly once.
\* ------------------------------------------------------------------------
C1_ClientClosedExactlyOnce == \A c \in Conns : Done(c) => closes[c] = 1

\* ------------------------------------------------------------------------
\* C2: no handler ever closes, reads or writes a descriptor number that at
\* that moment refers to the client or origin socket of another connection.
\* ------------------------------------------------------------------------
C2_NoForeignDescriptorUse == foreign = {}

\* ------------------------------------------------------------------------
\* Vocabulary of the per-connection properties
\* ------------------------------------------------------------------------
FirstLine(c) == script[c][1]

\* the request line of client c names a method other than GET
NonGet(c) == RequestAccepted(c) /\ FirstLine(c).method # "GET"

\* out is one error page with status code: the header block, then the body,
\* the block being the status line, Content-Type and a Content-Length that is
\* the byte length of the body
IsPage(out, code) ==
    /\ Len(out) = 2
    /\ out[1].t = "ehdr" /\ out[2].t = "ebody"
    /\ out[1].code = code
    /\ out[2].n = Len(out[2].text)
    /\ out[1].clen = Len(out[2].text)
    /\ out[1].text = "HTTP/1.0 " \o code \o " " \o out[1].reason \o "\r\n" \o
                     "Content-Type: text/html\r\n" \o
                     "Content-Length: " \o ToString(Len(out[2].text)) \o "\r\n\r\n"

\* out is cut short by a failed write: at most the header block of the page
IsCutPage(out, code) ==
    Len(out) <= 1 /\ (Len(out) = 1 => out[1].t = "ehdr" /\ out[1].code = code)

IsData(item) == item.t = "data"
DataOf(out) == SelectSeq(out, IsData)

RECURSIVE TotalLen(_)
TotalLen(chunks) ==
    IF chunks = <<>> THEN 0 ELSE Head(chunks).len + TotalLen(Tail(chunks))

\* chunks, in order, are exactly the bytes 1..n of the origin of connection c
IsResponse(chunks, c, n) ==
    /\ \A i \in 1 .. Len(chunks) :
         /\ chunks[i].t = "data"
         /\ chunks[i].src = OriginSock(c)
         /\ chunks[i].stale = 0
         /\ chunks[i].len > 0
         /\ chunks[i].lo = 1 + TotalLen(SubSeq(chunks, 1, i - 1))
    /\ TotalLen(chunks) = n

\* ------------------------------------------------------------------------
\* C3: when a handler has ended and none of its writes failed, its client
\* has received exactly one of: nothing, one well-formed error page, the
\* complete origin response; never a page and origin bytes, never two pages.
\* ------------------------------------------------------------------------
C3_ExactlyOneOutcome ==
    \A c \in Conns :
        Done(c) /\ ~ wfail[c] =>
            \/ clientOut[c] = <<>>
            \/ IsPage(clientOut[c], "400")
            \/ IsPage(clientOut[c], "501")
            \/ /\ originIn[c] # <<>>
               /\ IsResponse(clientOut[c], c, originResp[c].n)

\* ------------------------------------------------------------------------
\* C4: a first line the parser does not accept as a request line gets the
\* 400 page (whole, unless a write to the client fails), no origin is ever
\* dialed for that connection, and the client descriptor ends closed.
\* ------------------------------------------------------------------------
C4_MalformedRequestLine ==
    \A c \in Conns :
        script[c] # <<>> /\ ~ RequestAccepted(c) =>
            /\ dialed[c] = <<>> /\ th[c].serverfd = -1 /\ originIn[c] = <<>>
            /\ Done(c) =>
                 /\ ClientClosed(c)
                 /\ IF wfail[c] THEN IsCutPage(clientOut[c], "400")
                    ELSE IsPage(clientOut[c], "400")

C4_Witness ==
    \E c \in Conns :
        /\ Done(c) /\ script[c] # <<>> /\ ~ RequestAccepted(c)
        /\ ~ wfail[c] /\ Len(clientOut[c]) = 2

\* ------------------------------------------------------------------------
\* C5: a well-formed request line whose method is not exactly GET never
\* leads to an origin connection, and its client receives the 501 page whose
\* Content-Length is the byte length of the body (whole, unless a write to
\* the client fails).
\* ------------------------------------------------------------------------
C5_NonGetMethod ==
    \A c \in Conns :
        NonGet(c) =>
            /\ dialed[c] = <<>> /\ th[c].serverfd = -1 /\ originIn[c] = <<>>
            /\ Done(c) =>
                 IF wfail[c] THEN IsCutPage(clientOut[c], "501")
                 ELSE IsPage(clientOut[c], "501")

C5_Witness ==
    \E c \in Conns :
        /\ Done(c) /\ NonGet(c) /\ FirstLine(c).host = NoVal
        /\ ~ wfail[c] /\ Len(clientOut[c]) = 2

\* the header lines of a request: the lines after the request line, up to the
\* blank line that ends the header section
RECURSIVE UpToBlank(_)
UpToBlank(lines) ==
    IF lines = <<>> \/ Head(lines) = BlankLine THEN <<>>
    ELSE <<Head(lines)>> \o UpToBlank(Tail(lines))

\* the same, also cut at the first line that is no header
RECURSIVE UpToNonHeader(_)
UpToNonHeader(lines) ==
    IF lines = <<>> \/ Head(lines).t # "hdr" THEN <<>>
    ELSE <<Head(lines)>> \o UpToNonHeader(Tail(lines))

IsHeader(line) == line.t = "hdr"
Managed == {"Host", "User-Agent", "Connection", "Proxy-Connection"}
IsOtherHeader(line) == line.t = "hdr" /\ line.name \notin Managed
IsHostHeader(line) == line.t = "hdr" /\ line.name = "Host"

\* the headers client c sent, and those it sent before any malformed line
ClientHeaders(c) == SelectSeq(UpToBlank(Tail(script[c])), IsHeader)
ClientHeadersRead(c) == UpToNonHeader(Tail(script[c]))

\* a GET request line was accepted from client c
Get(c) == RequestAccepted(c) /\ FirstLine(c).method = "GET"

\* the request handler c wrote to its origin
Forwarded(c) == originIn[c] # <<>>
Outbound(c) == originIn[c][1].lines

\* ------------------------------------------------------------------------
\* C6: for a GET request, the authority of the request line supplies the
\* host and the port that are dialed, port "80" when it names none; when the
\* request line has no authority, the Host header supplies the host and the
\* request is forwarded to it on port "80".
\* ------------------------------------------------------------------------
C6_HostPortResolution ==
    \A c \in Conns :
        Done(c) /\ Get(c) =>
            LET f == FirstLine(c)
                hosts == SelectSeq(ClientHeadersRead(c), IsHostHeader)
            IN  IF f.host # NoVal
                THEN dialed[c] = << [host |-> f.host,
                                     port |-> IF f.port = NoVal THEN "80" ELSE f.port] >>
                ELSE hosts # <<>> =>
                       dialed[c] = << [host |-> hosts[1].value, port |-> "80"] >>

\* ------------------------------------------------------------------------
\* C7: when the request line was accepted and the host cannot be retrieved
\* from it, the client receives the 400 page before its connection is
\* closed (unless a write to the client fails).
\* ------------------------------------------------------------------------
C7_MissingFieldGets400 ==
    \A c \in Conns :
        /\ Done(c) /\ Get(c) /\ ~ wfail[c]
        /\ parser_retrieve(parser_parse_line(parser_new, FirstLine(c)), "host").err < 0
        => IsPage(clientOut[c], "400")

\* ------------------------------------------------------------------------
\* C8: a forwarded request starts with "GET <path> HTTP/1.0\r\n" whatever
\* version the client stated, and has exactly one Host, one User-Agent, one
\* Connection and one Proxy-Connection line, each with the proxy's value,
\* whatever headers of those names the client sent.
\* ------------------------------------------------------------------------
C8_MandatoryHeaders ==
    \A c \in Conns :
        Forwarded(c) =>
            LET r == Outbound(c)
                f == FirstLine(c)
                port == IF f.port = NoVal THEN "80" ELSE f.port
                Lines(name) == { i \in 2 .. Len(r) : r[i].t = "hdr" /\ r[i].name = name }
                Only(name, text) ==
                    /\ Cardinality(Lines(name)) = 1
                    /\ \A i \in Lines(name) : LineText(r[i]) = text
            IN  /\ Len(originIn[c]) = 1
                /\ Get(c)
                /\ r[1].t = "req"
                /\ LineText(r[1]) = "GET " \o f.path \o " HTTP/1.0\r\n"
                /\ Only("Host", "Host: " \o f.host \o ":" \o port \o "\r\n")
                /\ Only("User-Agent",
                        "User-Agent: Mozilla/5.0 (X11; Linux x86_64; rv:3.10.0) Gecko/20230411 Firefox/63.0.\r\n")
                /\ Only("Connection", "Connection: close\r\n")
                /\ Only("Proxy-Connection", "Proxy-Connection: close\r\n")

C8_Witness ==
    \E c \in Conns :
        /\ Forwarded(c)
        /\ FirstLine(c).version = "HTTP/1.1"
        /\ ClientHeaders(c) = << Hdr("Connection", "keep-alive"), Hdr("Host", "h2") >>

\* ------------------------------------------------------------------------
\* C9 as stated: every header the client sent under a name other than the four
\* managed ones is in the forwarded request, once, verbatim, after the four
\* mandatory headers and in the order sent.
\* ------------------------------------------------------------------------
C9_EveryClientHeaderPassed ==
    \A c \in Conns :
        Forwarded(c) =>
            LET r == Outbound(c)
            IN  /\ Len(r) >= 6
                /\ SubSeq(r, 6, Len(r) - 1) = SelectSeq(ClientHeaders(c), IsOtherHeader)

\* ------------------------------------------------------------------------
\* C9 as amended: every header the client sent before its first malformed
\* line (if any) under a name other than the four managed ones is in the
\* forwarded request, once, verbatim as "Name: Value\r\n", after the four
\* mandatory headers and in the order sent; a client Connection header is
\* not passed.
\* ------------------------------------------------------------------------
C9_HeadersReadArePassed ==
    \A c \in Conns :
        Forwarded(c) =>
            LET r == Outbound(c)
                sent == SelectSeq(ClientHeadersRead(c), IsOtherHeader)
            IN  /\ Len(r) = 6 + Len(sent)
                /\ \A i \in 2 .. 5 : r[i].t = "hdr" /\ r[i].name \in Managed
                /\ \A i \in 1 .. Len(sent) :
                     /\ r[5 + i] = sent[i]
                     /\ LineText(r[5 + i]) = sent[i].name \o ": " \o sent[i].value \o "\r\n"
                /\ r[Len(r)] = BlankLine

C9_Witness ==
    \E c \in Conns :
        /\ Forwarded(c)
        /\ Tail(script[c]) = << Hdr("X-Test", "1"), Hdr("Accept", "*/*") >>

\* ------------------------------------------------------------------------
\* C10: when the relay has run and no write of the handler failed, the bytes
\* written to the client by the relay loop are the bytes of the origin
\* response: as many, in the same order, none lost, repeated or stale.
\* ------------------------------------------------------------------------
C10_RelayRoundTrip ==
    \A c \in Conns :
        Done(c) /\ Forwarded(c) /\ ~ wfail[c] =>
            IsResponse(DataOf(clientOut[c]), c, originResp[c].n)

C10_Witness ==
    \E c \in Conns :
        /\ Done(c) /\ Forwarded(c) /\ ~ wfail[c]
        /\ originResp[c].n = 3 * MAX_OBJECT_SIZE + 7
        /\ Len(DataOf(clientOut[c])) = 4

\* ------------------------------------------------------------------------
\* Vocabulary of the order of reads and writes
\* ------------------------------------------------------------------------
\* positions in the I/O record of handler c of its reads from, and its writes
\* to, a socket of kind k
ReadsOf(c, k) == { i \in 1 .. Len(io[c]) : io[c][i].op = "read" /\ io[c][i].on.k = k }
WritesOf(c, k) == { i \in 1 .. Len(io[c]) : io[c][i].op = "write" /\ io[c][i].on.k = k }

\* the request handler c has built, complete with its terminating blank line
WholeRequest(c) ==
    /\ th[c].request # <<>>
    /\ th[c].request[Len(th[c].request)] = BlankLine
    /\ originIn[c] = << [t |-> "request", lines |-> th[c].request] >>

\* ------------------------------------------------------------------------
\* C11: within one connection every read from the origin comes after the
\* one write that put the whole outbound request on the origin socket, and
\* no read from the client comes after a write to the origin.
\* ------------------------------------------------------------------------
C11_RequestBeforeResponse ==
    \A c \in Conns :
        /\ \A i \in ReadsOf(c, "origin") :
             /\ WholeRequest(c)
             /\ \E j \in WritesOf(c, "origin") : j < i /\ io[c][j].ok
        /\ \A j \in WritesOf(c, "origin") :
             /\ Cardinality(WritesOf(c, "origin")) = 1
             /\ \A i \in ReadsOf(c, "client") : i < j

C11_Witness ==
    \E c \in Conns :
        /\ Done(c)
        /\ Cardinality(ReadsOf(c, "origin")) = 5
        /\ Cardinality(ReadsOf(c, "client")) = 2
        /\ clientIn[c] # <<>>

\* ------------------------------------------------------------------------
\* C12: when open_clientfd fails, the handler dials no second time, writes
\* nothing to any origin, and when it has ended its client descriptor is
\* closed and the last thing its client received is the 400 page (whole,
\* unless a write to the client failed).
\* ------------------------------------------------------------------------
ConnectRefused(c) == dialed[c] # <<>> /\ th[c].serverfd < 0

LastTwo(out) == SubSeq(out, Len(out) - 1, Len(out))

C12_ConnectFailure ==
    \A c \in Conns :
        ConnectRefused(c) =>
            /\ Len(dialed[c]) = 1
            /\ WritesOf(c, "origin") = {}
            /\ \A o \in Conns : originIn[o] = <<>>
            /\ Done(c) =>
                 /\ ClientClosed(c)
                 /\ ~ wfail[c] => Len(clientOut[c]) >= 2 /\ IsPage(LastTwo(clientOut[c]), "400")

C12_Witness ==
    \E c \in Conns :
        /\ Done(c) /\ ConnectRefused(c) /\ ~ wfail[c]
        /\ UpToBlank(Tail(script[c])) = ClientHeadersRead(c)
        /\ Len(clientOut[c]) = 2

\* ------------------------------------------------------------------------
\* Vocabulary of waiting
\* ------------------------------------------------------------------------
\* the descriptor handler c is about to read, -1 when it is not at a read
WaitsOn(c) ==
    IF th[c].pc \in {"read_request", "headers"} THEN th[c].client_fd
    ELSE IF th[c].pc = "relay_read" THEN th[c].serverfd
    ELSE -1

\* handler c is in a read that never returns
Waiting(c) == WaitsOn(c) >= 0 /\ Blocks(WaitsOn(c))

\* ------------------------------------------------------------------------
\* C13: the accept loop never waits for a handler (its next step is enabled
\* whatever the handlers are doing), and a handler waits for ever only on a
\* silent client or origin of its own connection, so that a silent peer of
\* one connection holds up no other connection.
\* ------------------------------------------------------------------------
C13_SilentPeerHoldsUpOnlyItsOwnHandler ==
    /\ Running /\ mpc = "spawn" => ENABLED main_spawn
    /\ Running /\ mpc = "accept" /\ nconn < Limit => ENABLED main_accept
    /\ \A c \in Conns : Waiting(c) => Owner(WaitsOn(c)).c = c

\* ------------------------------------------------------------------------
\* C14: after a write of a handler has failed, the handler reads no more
\* from the origin and writes no more to the client (so it sends no error
\* page either), and when it has ended both its descriptors are closed.
\* ------------------------------------------------------------------------
FailedWrites(c) == { j \in 1 .. Len(io[c]) : io[c][j].op = "write" /\ ~ io[c][j].ok }

OriginClosed(c) == \A f \in FDs : fdt[f] # OriginSock(c)

C14_WriteFailureAborts ==
    \A c \in Conns :
        \A j \in FailedWrites(c) :
            /\ \A i \in ReadsOf(c, "origin") : i < j
            /\ \A i \in WritesOf(c, "client") : i <= j
            /\ Done(c) => ClientClosed(c) /\ OriginClosed(c)

\* ------------------------------------------------------------------------
\* C15: whatever clienterror() writes to the client is, per call, the header
\* block and then the body: a body is always preceded by its header block,
\* the status line of the block carries the errnum and shortmsg given, and
\* the Content-Length in the block is the byte length of the body text.
\* ------------------------------------------------------------------------
IsErrorItem(item) == item.t \in {"ehdr", "ebody"}

C15_ErrorPageFraming ==
    \A c \in Conns :
        LET out == SelectSeq(clientOut[c], IsErrorItem)
            e == th[c].err
            body == ErrorBody(e.errnum, e.shortmsg, e.longmsg)
        IN  \A i \in 1 .. Len(out) :
                /\ out[i].t = "ehdr" =>
                     /\ out[i].code = e.errnum /\ out[i].reason = e.shortmsg
                     /\ out[i].clen = Len(body)
                     /\ out[i].text =
                            "HTTP/1.0 " \o e.errnum \o " " \o e.shortmsg \o "\r\n" \o
                            "Content-Type: text/html\r\n" \o
                            "Content-Length: " \o ToString(Len(body)) \o "\r\n\r\n"
                /\ out[i].t = "ebody" =>
                     /\ i > 1 /\ out[i - 1].t = "ehdr"
                     /\ out[i].text = body /\ out[i].n = Len(body)
                     /\ out[i - 1].clen = Len(out[i].text)

C15_Witness ==
    \E c \in Conns :
        /\ Done(c) /\ ~ wfail[c]
        /\ Len(SelectSeq(clientOut[c], IsErrorItem)) = 4
        /\ clientOut[c][1].clen = 215

\* ------------------------------------------------------------------------
\* C16: when the body text with its terminating NUL is longer than MAXBUF,
\* or the header block with its NUL longer than MAXLINE, clienterror()
\* makes no write at all, the client receives nothing, and the call returns
\* to its caller with the process running.
\* ------------------------------------------------------------------------
C16_OverflowWritesNothing ==
    \A c \in Conns :
        LET e == th[c].err
            body == ErrorBody(e.errnum, e.shortmsg, e.longmsg)
            block == ErrorHeaders(e.errnum, e.shortmsg, Len(body))
        IN  e # NoErr /\ (Len(body) + 1 > MAXBUF \/ Len(block) + 1 > MAXLINE) =>
                /\ io[c] = <<>> /\ clientOut[c] = <<>>
                /\ th[c].pc \in {"clienterror", e.ret}
                /\ Running

C16_Witness ==
    \E c \in Conns :
        /\ th[c].pc = "done" /\ io[c] = <<>>
        /\ Len(ErrorBody(th[c].err.errnum, th[c].err.shortmsg, th[c].err.longmsg)) = MAXBUF

\* ------------------------------------------------------------------------
\* C17: a process started with an argument count other than one port never
\* opens a listening socket and accepts nothing, and when it has exited it
\* has printed the usage message and its exit status is not zero.
\* ------------------------------------------------------------------------
C17_UsageExitsNonZero ==
    proc.argc # 2 =>
        /\ proc.listenfd = Unassigned /\ nconn = 0
        /\ mpc = "exit" => proc.status = "exited" /\ proc.usage /\ proc.code # 0

\* ------------------------------------------------------------------------
\* C18: SIGPIPE is ignored from before the first connection is accepted,
\* the process is never terminated by a signal, and after a write of some
\* handler has failed the process is still running with main() in its
\* accept loop.
\* ------------------------------------------------------------------------
C18_BrokenPipeIsLocal ==
    /\ nconn > 0 => proc.sigpipe = SIG_IGN
    /\ proc.status # "killed"
    /\ \A c \in Conns :
         FailedWrites(c) # {} => Running /\ mpc \in {"accept", "spawn"}

C18_Witness ==
    \E c \in Conns, o \in Conns :
        /\ c < o /\ Done(c) /\ Done(o)
        /\ \E j \in FailedWrites(c) : io[c][j].on = ClientSock(c)
        /\ FailedWrites(o) = {} /\ IsPage(clientOut[o], "400")

\* ------------------------------------------------------------------------
\* C19: when, after a request line doit() accepts (GET, with the host in
\* it), the client sends a line that is no header before any blank line,
\* the handler never reads a line
\* after that one, it still dials the origin, and unless the dial or the
\* write fails it sends the request line, the four mandatory headers, the
\* headers passed through before the bad line, and the blank line.
\* ------------------------------------------------------------------------
\* the position, among the lines after the request line, of the first line
\* that is neither a header nor the blank line; 0 when there is none
BadHeaderAt(c) ==
    LET rest == Tail(script[c])
        k == Len(ClientHeadersRead(c)) + 1
    IN  IF k <= Len(rest) /\ rest[k] # BlankLine THEN k ELSE 0

HasBadHeader(c) ==
    Get(c) /\ FirstLine(c).host # NoVal /\ BadHeaderAt(c) > 0

C19_BadHeaderTruncates ==
    \A c \in Conns :
        HasBadHeader(c) =>
            LET sent == SelectSeq(ClientHeadersRead(c), IsOtherHeader)
            IN  /\ Len(clientIn[c]) >= Len(script[c]) - 1 - BadHeaderAt(c)
                /\ Done(c) =>
                     /\ Len(dialed[c]) = 1
                     /\ ConnectRefused(c) \/ Cardinality(WritesOf(c, "origin")) = 1
                     /\ FailedWrites(c) = {} /\ ~ ConnectRefused(c) => Forwarded(c)
                /\ Forwarded(c) =>
                     LET r == Outbound(c)
                     IN  /\ Len(r) = 6 + Len(sent)
                         /\ r[1].t = "req"
                         /\ { r[i].name : i \in 2 .. 5 } = Managed
                         /\ SubSeq(r, 6, Len(r) - 1) = sent
                         /\ r[Len(r)] = BlankLine

C19_Witness ==
    \E c \in Conns :
        /\ Done(c) /\ HasBadHeader(c) /\ Forwarded(c) /\ ~ wfail[c]
        /\ BadHeaderAt(c) = 1 /\ clientIn[c] = << Hdr("X-Test", "1") >>

\* ------------------------------------------------------------------------
\* C20: once the header loop has ended (by the blank line, by the end of
\* the client's stream, or by a line that is no header) and the origin is
\* dialed, the request text ends with "\r\n\r\n": its last line is the
\* blank line, that is its only blank line, a header line precedes it, and
\* what is written to the origin is that text.
\* ------------------------------------------------------------------------
C20_OneBlankLineTerminator ==
    \A c \in Conns :
        dialed[c] # <<>> =>
            LET r == th[c].request
            IN  /\ Len(r) >= 6
                /\ LineText(r[Len(r)]) = "\r\n"
                /\ { i \in 1 .. Len(r) : r[i].t \notin {"req", "hdr"} } = { Len(r) }
                /\ r[Len(r) - 1].t = "hdr"
                /\ Forwarded(c) => Outbound(c) = r

C20_Witness ==
    \E c \in Conns :
        /\ Done(c) /\ Forwarded(c)
        /\ Tail(script[c]) = << Hdr("X-Test", "1") >>
        /\ Len(Outbound(c)) = 7

\* ------------------------------------------------------------------------
\* C21: a handler whose open_clientfd succeeded calls close(serverfd) at
\* most once, and when doit() has returned (after a failed send, after the
\* relay ended by end of stream or by a read error, with or without failed
\* writes to the client) it has called it exactly once and no descriptor
\* refers to its origin socket.
\* ------------------------------------------------------------------------
OriginOpened(c) == th[c].serverfd >= 0
Returned(c) == th[c].pc \in {"thread_close", "done"}

C21_OriginClosedExactlyOnce ==
    \A c \in Conns :
        OriginOpened(c) =>
            /\ scloses[c] <= 1
            /\ ~ Returned(c) /\ scloses[c] = 0 =>
                   fdt[th[c].serverfd] = OriginSock(c)
            /\ Returned(c) => scloses[c] = 1 /\ OriginClosed(c)

C21_Witness ==
    \E c \in Conns :
        /\ Returned(c) /\ OriginOpened(c)
        /\ originResp[c].end = "err" /\ originResp[c].n > MAX_OBJECT_SIZE
        /\ \E j \in FailedWrites(c) : io[c][j].on = ClientSock(c)

\* ------------------------------------------------------------------------
\* C22: whatever the number and the lengths of the client's header lines
\* (each at most MAXLINE bytes), the outbound request text (request line,
\* the four mandatory headers, the pass-through headers, the terminator)
\* with its terminating NUL fits the MAXBUF bytes of request[].
\* ------------------------------------------------------------------------
C22_RequestFitsBuffer ==
    \A c \in Conns : ~ WrittenPastEnd(th[c].request)

\* the overflow is reached by one pass-through header of a full line
C22_Overflowed ==
    \E c \in Conns :
        /\ Len(script[c]) = 2
        /\ WrittenPastEnd(th[c].request)
        /\ proc.status = "crashed"

\* ------------------------------------------------------------------------
\* C23: in every interleaving of the accept loop and the handlers, each
\* accepted connection has one handler, the handler's argument is the heap
\* cell of its own connection, the cell is read and then freed once by that
\* handler, client_fd is the number accept() returned for that connection,
\* and what the handler reads, writes and closes through its descriptors is
\* a socket of that connection.
\* ------------------------------------------------------------------------
Spawned(c) == th[c].pc # "idle"
Started(c) == th[c].pc \notin {"idle", "start"}

\* connection c has been through pthread_create
Handed(c) == c < nconn \/ (c = nconn /\ mpc # "spawn")

\* the argument of handler c: its own cell, carrying its own number
OwnArgument(c) ==
    /\ Handed(c) <=> Spawned(c)
    /\ ~ Spawned(c) => cell[c].st = "none"
    /\ Spawned(c) => th[c].vargp = c /\ cell[c].val = accepted[c]
    /\ Spawned(c) /\ ~ Started(c) => cell[c].st = "live"
    /\ Started(c) => cell[c].st = "freed" /\ th[c].client_fd = accepted[c]

\* no operation of handler c has hit a socket of another connection
OwnSockets(c) == \A e \in foreign : e.by # c

ArgumentPassing == \A c \in Conns : OwnArgument(c)

C23_HandlerWorksOnItsOwnConnection ==
    \A c \in Conns : OwnArgument(c) /\ OwnSockets(c)

\* two handlers have started while main() was ahead of both of them
C23_Race ==
    /\ nconn = 2 /\ mpc = "accept"
    /\ th[1].pc = "start" /\ th[2].pc = "start"

====
